---- MODULE Spec2Model ----
(***************************************************************************)
(* Essay-Master: the persistence bridge of the App component (question     *)
(* catalog merge, per-question state merge, per-chapter analyses) and the  *)
(* generative-service functions (credential check, request, response       *)
(* normalisation).  The repository holds two revisions of App and two of   *)
(* the service module; the variables appVariant and svcVariant select the  *)
(* revision a behaviour runs.                                              *)
(***************************************************************************)
EXTENDS Integers, Sequences, FiniteSets, TLC

VARIABLES
    appVariant,        \* which revision of App runs
    initialQuestions,  \* the base catalog imported from ./data
    customQuestions,   \* useState<Question[]>
    deletedIds,        \* useState<string[]>
    allQuestions,      \* useMemo over customQuestions and deletedIds
    selectedQuestion,  \* useState<Question | null>
    mode,              \* useState<AppMode>
    questionStates,    \* useState<Record<string, QuestionState>>
    updateLog,         \* history: the last updateQuestionState calls, newest last
    topicAnalyses,     \* useState<Record<string, ChapterAnalysis>>
    selectedChapter,   \* TopicAnalysis: useState<string>
    isAnalyzing,       \* TopicAnalysis: useState(false)
    analyzeCall,       \* the handleAnalyze invocation awaiting its result
    analysisLog,       \* history: the analyses computed successfully, newest last
    analysisOutcome,   \* history: how the last handleAnalyze that returned ended
    svcVariant,        \* which revision of the service module runs
    apiKey,            \* process.env.API_KEY
    svcCall,           \* the service function invoked and its arguments
    svcPc,             \* the invocation's position
    requests,          \* generateContent requests issued by the invocation
    svcReply,          \* what the awaited generateContent delivered
    svcResult,         \* what the invocation's promise settled with
    credentialCheck,   \* how the invocation's credential check ended
    isBatchProcessing, \* part_001: useState(false)
    batchProgress,     \* part_001: useState("")
    batch,             \* the handleBatchGenerate invocation: position, captures, locals
    batchLog,          \* history: what the current batch run has done, newest last
    graderLoading,     \* EssayGrader: useState(false) of the mounted instance
    gradeCalls,        \* the handleGrade invocations awaiting gradeEssay
    gradeLog,          \* history: the handleGrade invocations that saved, oldest first
    localStorage,      \* the four stored documents, by slice
    storageAtLoad      \* history: the stored documents the slices were loaded from

catalogVars == <<initialQuestions, customQuestions, deletedIds, allQuestions,
                 selectedQuestion, mode>>
workVars == <<questionStates, updateLog>>
analysisVars == <<topicAnalyses, selectedChapter, isAnalyzing, analyzeCall, analysisLog,
                  analysisOutcome>>

svcVars == <<svcVariant, apiKey, svcCall, svcPc, requests, svcReply, svcResult,
             credentialCheck>>

batchVars == <<isBatchProcessing, batchProgress, batch, batchLog>>

graderVars == <<graderLoading, gradeCalls, gradeLog>>

storageVars == <<localStorage, storageAtLoad>>

vars == <<appVariant, catalogVars, workVars, analysisVars, svcVars, batchVars, graderVars,
          storageVars>>

(***************************************************************************)
(* Bounds of the model.                                                    *)
(***************************************************************************)
MaxBase == 2
MaxCustom == 2
MaxDeleted == 1
MaxUpdates == 2
MaxAnalyses == 2
MaxItems == 3
MaxRuns == 1

(***************************************************************************)
(* JavaScript values.                                                      *)
(***************************************************************************)
NULL == "<null>"
UNDEFINED == "<undefined>"

AppVariants == {"App.tsx", "part_001"}

QIds == {"q1", "q2", "custom-1"}
BaseIds == {"q1", "q2"}
Texts == {"t1", "t2"}
Chapters == {"X", "Y"}

Question(i, t, c) == [id |-> i, questionText |-> t, chapter |-> c]
NoQuestion == Question(NULL, NULL, NULL)
CatalogQuestions == {Question(i, t, "X") : i \in QIds, t \in Texts}
BaseQuestions == {Question(i, "t1", "X") : i \in BaseIds}

SeqsUpTo(S, n) == UNION {[1..k -> S] : k \in 0..n}
Range(s) == {s[i] : i \in DOMAIN s}
Ids(s) == {s[i].id : i \in DOMAIN s}
UniqueIds(s) == \A i, j \in DOMAIN s : s[i].id = s[j].id => i = j

(***************************************************************************)
(* Persistence: the four useEffect hooks that write a slice to             *)
(* localStorage when it has changed.  A stored document is held as the     *)
(* JSON value its text denotes.                                            *)
(***************************************************************************)
StoredDoc(json) == [present |-> TRUE, doc |-> json]
\* localStorage.getItem(key) === null; doc holds the container the slice gets.
AbsentDoc(empty) == [present |-> FALSE, doc |-> empty]

\* JSON.stringify of an object leaves out the properties that are undefined.
StringifyObject(obj) == [f \in {g \in DOMAIN obj : obj[g] # UNDEFINED} |-> obj[f]]
\* JSON.stringify(customQuestions), JSON.stringify(deletedIds)
StringifyList(list) == list
\* JSON.stringify(questionStates)
StringifyWork(states) == [id \in DOMAIN states |-> StringifyObject(states[id])]
\* JSON.stringify(topicAnalyses)
StringifyAnalyses(analyses) == analyses

\* saved ? JSON.parse(saved) : <empty container>
LoadSlice(stored) == stored.doc

\* An effect that leaves the stored document as it is.
PersistedNever(stored, before, after, json) == stored

\* useEffect(() => localStorage.setItem(KEY, JSON.stringify(slice)), [slice])
Persisted(stored, before, after, json) ==
    IF after # before THEN StoredDoc(json) ELSE stored

WrittenStorage(custom, deleted, states, analyses) ==
    [customQuestions |-> StoredDoc(StringifyList(custom)),
     deletedIds |-> StoredDoc(StringifyList(deleted)),
     questionStates |-> StoredDoc(StringifyWork(states)),
     topicAnalyses |-> StoredDoc(StringifyAnalyses(analyses))]

\* The effects of the render that follows a handler.
PersistEffects ==
    /\ localStorage' =
          [customQuestions |->
              Persisted(localStorage.customQuestions, customQuestions, customQuestions',
                        StringifyList(customQuestions')),
           deletedIds |->
              Persisted(localStorage.deletedIds, deletedIds, deletedIds',
                        StringifyList(deletedIds')),
           questionStates |->
              Persisted(localStorage.questionStates, questionStates, questionStates',
                        StringifyWork(questionStates')),
           topicAnalyses |->
              Persisted(localStorage.topicAnalyses, topicAnalyses, topicAnalyses',
                        StringifyAnalyses(topicAnalyses'))]
    /\ UNCHANGED storageAtLoad

\* The state after the first render: every effect has run once.
StorageLoaded ==
    /\ storageAtLoad = WrittenStorage(customQuestions, deletedIds, questionStates,
                                      topicAnalyses)
    /\ localStorage = storageAtLoad

\* The EssayGrader instance across a render: App renders it for a selected
\* question in GRADER mode; an instance that stays mounted keeps its state, an
\* unmounted one is dropped and its pending setState calls do nothing.
GraderMounted(sel, md) == md = "GRADER" /\ sel.id # NULL
GraderRender(sel, md) ==
    IF GraderMounted(selectedQuestion, mode) /\ GraderMounted(sel, md)
    THEN UNCHANGED <<graderLoading, gradeCalls, gradeLog>>
    ELSE /\ graderLoading' = FALSE
         /\ gradeCalls' = {[c EXCEPT !.mounted = FALSE] : c \in gradeCalls}
         /\ UNCHANGED gradeLog

\* Array.prototype.includes
Includes(s, x) == \E i \in DOMAIN s : s[i] = x

\* id.startsWith('custom-')
StartsWithCustom(id) == id \in {"custom-1"}

AppModes == {"GENERATOR", "GRADER", "COACH", "IMPROVER", "ANALYSIS", "SNIPPET"}

(***************************************************************************)
(* The effective catalog.                                                  *)
(***************************************************************************)
\* new Map(customQuestions.map(q => [q.id, q])): a later entry of the same id
\* overrides an earlier one.
customMapHas(custom, id) == \E i \in DOMAIN custom : custom[i].id = id
customMapGet(custom, id) ==
    LET last == CHOOSE i \in DOMAIN custom :
                    /\ custom[i].id = id
                    /\ \A j \in DOMAIN custom : custom[j].id = id => j <= i
    IN  custom[last]

ComputeAllQuestionsNoDedup(base, custom, deleted) ==
    LET mergedInitial == [i \in DOMAIN base |->
                            IF customMapHas(custom, base[i].id)
                            THEN customMapGet(custom, base[i].id) ELSE base[i]]
    IN  SelectSeq(mergedInitial \o custom, LAMBDA q : ~Includes(deleted, q.id))

ComputeAllQuestions(base, custom, deleted) ==
    LET initialIds == Ids(base)
        mergedInitial == [i \in DOMAIN base |->
                            IF customMapHas(custom, base[i].id)
                            THEN customMapGet(custom, base[i].id) ELSE base[i]]
        newCustom == SelectSeq(custom, LAMBDA q : q.id \notin initialIds)
    IN  SelectSeq(mergedInitial \o newCustom, LAMBDA q : ~Includes(deleted, q.id))

(***************************************************************************)
(* Catalog handlers.  isModalOpen and questionToEdit only feed the         *)
(* AddQuestionModal component and are read by no handler; they are not     *)
(* part of the state here.                                                 *)
(***************************************************************************)
\* A save that always adds the question at the end.
UpsertQuestionAppend(prev, question) == Append(prev, question)

\* setCustomQuestions(prev => exists ? prev.map(...) : [...prev, question])
UpsertQuestion(prev, question) ==
    IF \E i \in DOMAIN prev : prev[i].id = question.id
    THEN [i \in DOMAIN prev |-> IF prev[i].id = question.id THEN question ELSE prev[i]]
    ELSE Append(prev, question)

\* App.tsx
handleSaveQuestion_App(question) ==
    /\ appVariant = "App.tsx"
    /\ customQuestions' = UpsertQuestion(customQuestions, question)
    /\ allQuestions' = ComputeAllQuestions(initialQuestions, customQuestions', deletedIds)
    /\ UNCHANGED <<batchVars, graderVars, appVariant, initialQuestions, deletedIds, selectedQuestion, mode,
                   workVars, analysisVars, svcVars>>
    /\ PersistEffects

\* part_001
handleSaveQuestion_p1(question) ==
    /\ appVariant = "part_001"
    /\ deletedIds' = IF Includes(deletedIds, question.id)
                     THEN SelectSeq(deletedIds, LAMBDA id : id # question.id)
                     ELSE deletedIds
    /\ customQuestions' = UpsertQuestion(customQuestions, question)
    /\ selectedQuestion' = IF selectedQuestion.id = question.id
                           THEN question ELSE selectedQuestion
    /\ allQuestions' = ComputeAllQuestions(initialQuestions, customQuestions', deletedIds')
    /\ GraderRender(selectedQuestion', mode)
    /\ UNCHANGED <<batchVars, appVariant, initialQuestions, mode, workVars, analysisVars, svcVars>>
    /\ PersistEffects

\* App.tsx.  The Sidebar lists allQuestions; window.confirm answers either way.
handleDeleteQuestion_App(id, confirmed) ==
    /\ appVariant = "App.tsx"
    /\ id \in Ids(allQuestions)
    /\ IF confirmed
       THEN /\ deletedIds' = Append(deletedIds, id)
            /\ selectedQuestion' = IF selectedQuestion.id = id THEN NoQuestion
                                   ELSE selectedQuestion
       ELSE UNCHANGED <<deletedIds, selectedQuestion>>
    /\ allQuestions' = ComputeAllQuestions(initialQuestions, customQuestions, deletedIds')
    /\ GraderRender(selectedQuestion', mode)
    /\ UNCHANGED <<batchVars, appVariant, initialQuestions, customQuestions, mode,
                   workVars, analysisVars, svcVars>>
    /\ PersistEffects

\* part_001
handleDeleteQuestion_p1(id, confirmed) ==
    /\ appVariant = "part_001"
    /\ id \in Ids(allQuestions)
    /\ IF confirmed
       THEN /\ IF StartsWithCustom(id)
               THEN /\ customQuestions' = SelectSeq(customQuestions, LAMBDA q : q.id # id)
                    /\ UNCHANGED deletedIds
               ELSE /\ deletedIds' = Append(deletedIds, id)
                    /\ customQuestions' = SelectSeq(customQuestions, LAMBDA q : q.id # id)
            /\ selectedQuestion' = IF selectedQuestion.id = id THEN NoQuestion
                                   ELSE selectedQuestion
       ELSE UNCHANGED <<customQuestions, deletedIds, selectedQuestion>>
    /\ allQuestions' = ComputeAllQuestions(initialQuestions, customQuestions', deletedIds')
    /\ GraderRender(selectedQuestion', mode)
    /\ UNCHANGED <<batchVars, appVariant, initialQuestions, mode, workVars, analysisVars, svcVars>>
    /\ PersistEffects

\* Sidebar onSelectQuestion={(q) => { setSelectedQuestion(q); setMode(AppMode.GENERATOR); }}
onSelectQuestion(q) ==
    /\ q \in Range(allQuestions)
    /\ selectedQuestion' = q
    /\ mode' = "GENERATOR"
    /\ GraderRender(q, "GENERATOR")
    /\ UNCHANGED <<batchVars, appVariant, initialQuestions, customQuestions, deletedIds, allQuestions,
                   workVars, analysisVars, svcVars>>
    /\ PersistEffects

(***************************************************************************)
(* Per-question work state.  A QuestionState is a JavaScript object: a     *)
(* function from the names of the fields it holds to their values.         *)
(***************************************************************************)
EmptyMap == [k \in {} |-> NULL]

\* { generatorEssay: "", graderEssay: "", graderFeedback: "", realTimeEssay: "" }
DefaultQuestionState ==
    [generatorEssay |-> "", graderEssay |-> "", graderFeedback |-> "", realTimeEssay |-> ""]

\* { ...a, ...b }
Spread(a, b) == [k \in DOMAIN a \cup DOMAIN b |-> IF k \in DOMAIN b THEN b[k] ELSE a[k]]

\* A merge that starts every record from the defaults.
MergeStateOverwrite(prev, id, updates) ==
    [k \in DOMAIN prev \cup {id} |->
        IF k = id THEN Spread(DefaultQuestionState, updates) ELSE prev[k]]

\* A merge whose new record holds the updates alone.
MergeStateNoDefaults(prev, id, updates) ==
    [k \in DOMAIN prev \cup {id} |->
        IF k = id
        THEN Spread(IF id \in DOMAIN prev THEN prev[id] ELSE EmptyMap, updates)
        ELSE prev[k]]

\* prev => ({ ...prev, [id]: { ...(prev[id] || defaults), ...updates } })
MergeState(prev, id, updates) ==
    [k \in DOMAIN prev \cup {id} |->
        IF k = id
        THEN Spread(IF id \in DOMAIN prev THEN prev[id] ELSE DefaultQuestionState, updates)
        ELSE prev[k]]

WorkIds == {"q1", "q2"}
WorkValues == {"a", "b"}

\* The partial updates the call sites of updateQuestionState pass.
UpdateShapes(variant) ==
    {{"generatorEssay"}, {"deconstruction"}, {"graderEssay", "graderFeedback"},
     {"realTimeEssay"}, {"clozeData"}}
    \cup (IF variant = "part_001"
          THEN {{"clozeUserAnswers", "clozeFeedback"}, {"generatorEssay", "clozeData"}}
          ELSE {})
Updates(variant) == UNION {[shape -> WorkValues] : shape \in UpdateShapes(variant)}

updateQuestionState(id, updates) ==
    /\ Len(updateLog) < MaxUpdates
    /\ questionStates' = MergeState(questionStates, id, updates)
    /\ updateLog' = Append(updateLog,
                           [id |-> id, updates |-> updates, before |-> questionStates])
    /\ UNCHANGED <<batchVars, graderVars, appVariant, catalogVars, analysisVars, svcVars>>
    /\ PersistEffects

(***************************************************************************)
(* Chapter analyses: TopicAnalysis.handleAnalyze and the onSaveAnalysis    *)
(* prop each revision of App passes to it.                                 *)
(***************************************************************************)
AnalysisPoints == {"p1", "p2"}

\* The ChapterAnalysis analyzeTopicMarkSchemes builds from the parsed response.
ChapterAnalysis(chapterTitle, count, points) ==
    [chapter |-> chapterTitle, questionCount |-> count, points |-> points]
\* null
NoAnalysis == ChapterAnalysis(NULL, 0, NULL)
NoCall == [chapter |-> NULL, questionCount |-> 0]

\* questions.filter(q => q.topic === selectedTopic && q.chapter === selectedChapter)
chapterQuestions == SelectSeq(allQuestions, LAMBDA q : q.chapter = selectedChapter)

setSelectedChapter(ch) ==
    /\ ch # selectedChapter
    /\ selectedChapter' = ch
    /\ UNCHANGED <<batchVars, graderVars, appVariant, catalogVars, workVars, topicAnalyses, isAnalyzing,
                   analyzeCall, analysisLog, analysisOutcome, svcVars>>
    /\ PersistEffects

\* handleAnalyze up to its await; the button is disabled while isAnalyzing.
handleAnalyze ==
    /\ ~isAnalyzing
    /\ analyzeCall = NoCall
    /\ Len(analysisLog) < MaxAnalyses
    /\ Len(chapterQuestions) # 0
    /\ isAnalyzing' = TRUE
    /\ analyzeCall' = [chapter |-> selectedChapter, questionCount |-> Len(chapterQuestions)]
    /\ UNCHANGED <<batchVars, graderVars, appVariant, catalogVars, workVars, topicAnalyses, selectedChapter,
                   analysisLog, analysisOutcome, svcVars>>
    /\ PersistEffects

\* part_001: setTopicAnalyses(prev => ({ ...prev, [chapterId]: analysis }))
handleSaveAnalysis(prev, chapterId, analysis) ==
    [k \in DOMAIN prev \cup {chapterId} |-> IF k = chapterId THEN analysis ELSE prev[k]]

\* App.tsx: onSaveAnalysis={() => {}}
onSaveAnalysis_App(prev, chapterId, analysis) == prev

onSaveAnalysis(prev, chapterId, analysis) ==
    IF appVariant = "part_001"
    THEN handleSaveAnalysis(prev, chapterId, analysis)
    ELSE onSaveAnalysis_App(prev, chapterId, analysis)

\* A test that takes every result, null included, as an analysis.
ResultAlways(result) == TRUE

\* if (result)
ResultTruthy(result) == result # NoAnalysis

\* handleAnalyze after its await: result is what analyzeTopicMarkSchemes returned.
handleAnalyzeResume(result) ==
    /\ analyzeCall # NoCall
    /\ \/ result = NoAnalysis
       \/ /\ result.chapter = analyzeCall.chapter
          /\ result.questionCount = analyzeCall.questionCount
    /\ analysisOutcome' = IF ResultTruthy(result) THEN "saved" ELSE "alert"
    /\ IF ResultTruthy(result)
       THEN /\ topicAnalyses' = onSaveAnalysis(topicAnalyses, analyzeCall.chapter, result)
            /\ analysisLog' = Append(analysisLog,
                                     [chapter |-> analyzeCall.chapter, result |-> result,
                                      before |-> topicAnalyses, after |-> topicAnalyses'])
       ELSE UNCHANGED <<topicAnalyses, analysisLog>>
    /\ isAnalyzing' = FALSE
    /\ analyzeCall' = NoCall
    /\ UNCHANGED <<batchVars, graderVars, appVariant, catalogVars, workVars, selectedChapter, svcVars>>
    /\ PersistEffects

(***************************************************************************)
(* The service module.  JavaScript values carry their type: property       *)
(* access, truthiness and || are computed as the language computes them.   *)
(***************************************************************************)
JUndef == [t |-> "undefined", v |-> 0]
JNull == [t |-> "null", v |-> 0]
JNum(n) == [t |-> "number", v |-> n]
JStr(s) == [t |-> "string", v |-> s]
JList(s) == [t |-> "array", v |-> s]
JObj(f) == [t |-> "object", v |-> f]

JTruthy(x) ==
    CASE x.t \in {"undefined", "null"} -> FALSE
      [] x.t = "number" -> x.v # 0
      [] x.t = "string" -> x.v # ""
      [] OTHER -> TRUE

\* a || b
JOr(a, b) == IF JTruthy(a) THEN a ELSE b

\* obj.f, for obj an object
Get(obj, f) == IF f \in DOMAIN obj.v THEN obj.v[f] ELSE JUndef

\* What running a block of code ends with.
NoError == [hasMessage |-> FALSE, message |-> "<none>"]
Return(x) == [kind |-> "return", value |-> x, error |-> NoError]
Throw(e) == [kind |-> "throw", value |-> JUndef, error |-> e]

\* new Error(msg), and a thrown value that has no message property.
Error(msg) == [hasMessage |-> TRUE, message |-> msg]
ThrownWithoutMessage == [hasMessage |-> FALSE, message |-> "<thrown value>"]
TypeError == Error("Cannot read properties of undefined")
SyntaxError == Error("Unexpected token in JSON")

\* What a promise settles with.
Fulfilled(x) == [kind |-> "fulfilled", value |-> x]
Rejected == [kind |-> "rejected", value |-> JUndef]
Pending == [kind |-> "pending", value |-> JUndef]

SvcVariants == {"geminiService.ts", "part_000"}

ApiKeys == {JUndef, JStr(""), JStr("undefined"), JStr("AIza-key")}

\* if (!key)
CredentialMissingOnlyUndefined(key) == key = JUndef

CredentialMissing(key) == ~JTruthy(key)

CheckMessage_gs ==
    "API Key is missing. Please go to Vercel Settings -> Environment Variables and add API_KEY."
CheckMessage_p0 == "API_KEY environment variable is missing."

\* geminiService.ts: the module-level client exists when apiKey was truthy at load.
aiDefined(key) == JTruthy(key)

\* geminiService.ts
checkForApiKey(key) ==
    IF CredentialMissing(key) THEN Throw(Error(CheckMessage_gs)) ELSE Return(JUndef)

\* part_000
getAIClient(key) ==
    IF CredentialMissing(key) THEN Throw(Error(CheckMessage_p0)) ELSE Return(JUndef)

\* error.message.includes("API Key"), over the messages of the model
TransportMessages == {"API Key not found. Please pass a valid API key.", "429 quota exceeded"}
IncludesApiKey(msg) ==
    msg \in {CheckMessage_gs, "API Key not found. Please pass a valid API key."}

StringFns == {"generateModelAnswer", "generateQuestionDeconstruction", "gradeEssay"}
JsonFns == {"getRealTimeCoaching", "generateClozeExercise", "evaluateClozeAnswers",
            "analyzeTopicMarkSchemes"}
SvcFns(variant) ==
    StringFns \cup JsonFns \cup (IF variant = "part_000" THEN {"improveSnippet"} ELSE {})

(***************************************************************************)
(* The catch blocks.                                                       *)
(***************************************************************************)
CoachingRecord(n1, n2, n3, tot, advice) ==
    JObj([ao1 |-> n1, ao2 |-> n2, ao3 |-> n3, total |-> tot, advice |-> advice])

\* geminiService.ts generateModelAnswer and gradeEssay: error.message.includes("API Key")
MessageCatch_gs(error, keyText, otherText) ==
    IF ~error.hasMessage THEN Rejected
    ELSE IF IncludesApiKey(error.message) THEN Fulfilled(JStr(keyText))
    ELSE Fulfilled(JStr(otherText))

\* A catch block that lets the error escape.
Catch_rethrow(fn, error) == Rejected

Catch_gs(fn, error) ==
    CASE fn = "generateModelAnswer" ->
            MessageCatch_gs(error,
                "Error: API Key is missing in Vercel Settings. Please configure it and redeploy.",
                "Failed to generate essay. Please check API key or try again.")
      [] fn = "generateQuestionDeconstruction" ->
            Fulfilled(JStr("Failed to analyze question. Check API Key."))
      [] fn = "gradeEssay" ->
            MessageCatch_gs(error,
                "Error: API Key is missing in Vercel Settings.",
                "Failed to grade essay. Please check API key.")
      [] fn = "getRealTimeCoaching" ->
            Fulfilled(CoachingRecord(JNum(0), JNum(0), JNum(0), JNum(0), JStr("Check API Key")))
      [] OTHER -> Fulfilled(JNull)

Catch_p0(fn, error) ==
    CASE fn = "generateModelAnswer" ->
            Fulfilled(JStr("Failed to generate. Please check if API_KEY is set in Vercel settings."))
      [] fn = "generateQuestionDeconstruction" -> Fulfilled(JStr("Error."))
      [] fn = "gradeEssay" -> Fulfilled(JStr("Error grading."))
      [] fn = "getRealTimeCoaching" ->
            Fulfilled(CoachingRecord(JNum(0), JNum(0), JNum(0), JNum(0),
                                     JStr("Error connecting to AI.")))
      [] fn = "improveSnippet" ->
            Fulfilled(JObj([improved |-> JStr(""), explanation |-> JStr("Error"),
                            aoFocus |-> JStr("")]))
      [] OTHER -> Fulfilled(JNull)

Catch(variant, fn, error) ==
    IF variant = "geminiService.ts" THEN Catch_gs(fn, error) ELSE Catch_p0(fn, error)

(***************************************************************************)
(* Response texts and their normalisation.  A text is its verbatim string, *)
(* whether JSON.parse accepts it, and the value it parses to.              *)
(***************************************************************************)
Text(raw, parses, json) == [raw |-> raw, parses |-> parses, json |-> json]
EmptyText == Text("", FALSE, JUndef)
Prose(s) == Text(s, FALSE, JUndef)
Doc(raw, json) == Text(raw, TRUE, json)

\* response.text || fallback
TextOr(text, fallback) == IF text.raw = "" THEN JStr(fallback) ELSE JStr(text.raw)

\* A parse that yields an empty object for a text that is not JSON.
ParseLenient(text) ==
    IF text.raw = "" \/ ~text.parses THEN Return(JObj(EmptyMap)) ELSE Return(text.json)

\* JSON.parse(response.text || "{}")
ParseOrEmpty(text) ==
    IF text.raw = "" THEN Return(JObj(EmptyMap))
    ELSE IF text.parses THEN Return(text.json)
    ELSE Throw(SyntaxError)

\* The key a property assignment map[id] = ... uses.
KeyOf(id) ==
    CASE id.t = "number" -> ToString(id.v)
      [] id.t = "string" -> id.v
      [] OTHER -> id.t

LastWithKey(items, k) ==
    CHOOSE i \in DOMAIN items :
        /\ KeyOf(Get(items[i], "id")) = k
        /\ \A j \in DOMAIN items : KeyOf(Get(items[j], "id")) = k => j <= i

\* geminiService.ts: feedbackMap[item.id] = { score: item.score, comment: item.comment }
FeedbackEntry_gs(item) == JObj([score |-> Get(item, "score"), comment |-> Get(item, "comment")])
\* part_000: map[f.id] = f
FeedbackEntry_p0(item) == item

FeedbackMap(items, variant) ==
    [k \in {KeyOf(Get(items[i], "id")) : i \in DOMAIN items} |->
        IF variant = "geminiService.ts"
        THEN FeedbackEntry_gs(items[LastWithKey(items, k)])
        ELSE FeedbackEntry_p0(items[LastWithKey(items, k)])]

\* geminiService.ts evaluateClozeAnswers, after JSON.parse
evaluateClozeAnswers_gs(json) ==
    IF json.t \in {"null", "undefined"} THEN Throw(TypeError)
    ELSE LET feedback == Get(json, "feedback")
         IN  IF JTruthy(feedback) /\ feedback.t = "array"
             THEN IF \E i \in DOMAIN feedback.v : feedback.v[i].t = "null"
                  THEN Throw(TypeError)
                  ELSE Return(JObj(FeedbackMap(feedback.v, "geminiService.ts")))
             ELSE Return(JObj(EmptyMap))

\* part_000 evaluateClozeAnswers: json.feedback?.forEach((f) => map[f.id] = f)
evaluateClozeAnswers_p0(json) ==
    IF json.t \in {"null", "undefined"} THEN Throw(TypeError)
    ELSE LET feedback == Get(json, "feedback")
         IN  IF feedback.t \in {"null", "undefined"} THEN Return(JObj(EmptyMap))
             ELSE IF feedback.t # "array" THEN Throw(TypeError)
             ELSE IF \E i \in DOMAIN feedback.v : feedback.v[i].t = "null"
                  THEN Throw(TypeError)
                  ELSE Return(JObj(FeedbackMap(feedback.v, "part_000")))

\* geminiService.ts getRealTimeCoaching, after JSON.parse
getRealTimeCoaching_gs(json) ==
    IF json.t \in {"null", "undefined"} THEN Throw(TypeError)
    ELSE Return(CoachingRecord(JOr(Get(json, "ao1"), JNum(0)), JOr(Get(json, "ao2"), JNum(0)),
                               JOr(Get(json, "ao3"), JNum(0)), JOr(Get(json, "total"), JNum(0)),
                               JOr(Get(json, "advice"), JStr("Keep writing..."))))

\* geminiService.ts generateClozeExercise, after JSON.parse
generateClozeExercise_gs(json) ==
    IF json.t \in {"null", "undefined"} THEN Throw(TypeError)
    ELSE Return(JObj([textWithBlanks |-> Get(json, "textWithBlanks"),
                      blanks |-> Get(json, "blanks")]))

\* geminiService.ts analyzeTopicMarkSchemes, after JSON.parse
analyzeTopicMarkSchemes_gs(json, call) ==
    IF json.t \in {"null", "undefined"} THEN Throw(TypeError)
    ELSE Return(JObj([chapter |-> JStr(call.chapterTitle),
                      lastUpdated |-> JStr("new Date().toISOString()"),
                      questionCount |-> JNum(call.questionCount),
                      ao1 |-> JOr(Get(json, "ao1"), JList(<<>>)),
                      ao2 |-> JOr(Get(json, "ao2"), JList(<<>>)),
                      ao3 |-> JOr(Get(json, "ao3"), JList(<<>>)),
                      debates |-> JOr(Get(json, "debates"), JList(<<>>))]))

\* The try block after the awaited response, geminiService.ts
Then_gs(call, text) ==
    CASE call.fn = "generateModelAnswer" -> Return(TextOr(text, "Error generating response."))
      [] call.fn = "generateQuestionDeconstruction" ->
            Return(TextOr(text, "Error analyzing question."))
      [] call.fn = "gradeEssay" -> Return(TextOr(text, "Error grading essay."))
      [] OTHER ->
            LET parsed == ParseOrEmpty(text)
            IN  IF parsed.kind = "throw" THEN parsed
                ELSE CASE call.fn = "getRealTimeCoaching" -> getRealTimeCoaching_gs(parsed.value)
                       [] call.fn = "generateClozeExercise" -> generateClozeExercise_gs(parsed.value)
                       [] call.fn = "evaluateClozeAnswers" -> evaluateClozeAnswers_gs(parsed.value)
                       [] OTHER -> analyzeTopicMarkSchemes_gs(parsed.value, call)

\* The try block after the awaited response, part_000
Then_p0(call, text) ==
    IF call.fn \in StringFns THEN Return(TextOr(text, "Error."))
    ELSE LET parsed == ParseOrEmpty(text)
         IN  IF parsed.kind = "throw" THEN parsed
             ELSE IF call.fn = "evaluateClozeAnswers" THEN evaluateClozeAnswers_p0(parsed.value)
             ELSE parsed

\* The promise an invocation returns, settled from what its try block ended with.
Settle(variant, fn, outcome) ==
    IF outcome.kind = "return" THEN Fulfilled(outcome.value)
    ELSE Catch(variant, fn, outcome.error)

Then(variant, call, text) ==
    IF variant = "geminiService.ts" THEN Then_gs(call, text) ELSE Then_p0(call, text)

(***************************************************************************)
(* What the awaited generateContent can deliver.                           *)
(***************************************************************************)
Response(text) == [kind |-> "response", text |-> text, error |-> NoError]
Failure(error) == [kind |-> "throw", text |-> EmptyText, error |-> error]
NoReply == [kind |-> "none", text |-> EmptyText, error |-> NoError]

\* A feedback item: an object with a comment and, each optionally, id and score.
FeedbackItem(id, score) ==
    JObj([k \in {"comment"} \cup (IF id # 0 THEN {"id"} ELSE {})
                            \cup (IF score # 0 THEN {"score"} ELSE {}) |->
            CASE k = "id" -> JNum(id)
              [] k = "score" -> JNum(score)
              [] OTHER -> JStr("ok")])
\* Items for blanks 1 and 3, a score-less item for blank 2, an item for an id
\* that is no blank, an item without id, and null.
FeedbackItems ==
    {FeedbackItem(1, 4), FeedbackItem(2, 0), FeedbackItem(3, 4), FeedbackItem(7, 4),
     FeedbackItem(0, 4), JNull}

JsonDocs(fn) ==
    {JNull, JObj(EmptyMap)} \cup
    CASE fn = "getRealTimeCoaching" ->
            {CoachingRecord(JNum(3), JNum(2), JNum(1), JNum(6), JStr("advice")),
             JObj([ao1 |-> JNum(3)])}
      [] fn = "generateClozeExercise" ->
            {JObj([textWithBlanks |-> JStr("[BLANK_1]"), blanks |-> JList(<<1>>)]),
             JObj([textWithBlanks |-> JStr("[BLANK_1]")])}
      [] fn = "evaluateClozeAnswers" ->
            {JObj([feedback |-> JStr("none")])} \cup
            {JObj([feedback |-> JList(items)]) : items \in SeqsUpTo(FeedbackItems, MaxItems)}
      [] fn = "analyzeTopicMarkSchemes" ->
            {JObj([ao1 |-> JList(<<"p1">>), ao2 |-> JList(<<"p2">>), ao3 |-> JList(<<"p3">>),
                   debates |-> JList(<<"d1">>)]),
             JObj([ao1 |-> JList(<<"p1">>)])}
      [] OTHER ->
            {JObj([improved |-> JStr("better"), explanation |-> JStr("why"),
                   aoFocus |-> JStr("AO2")])}

Replies(fn) ==
    {Failure(e) : e \in {Error(m) : m \in TransportMessages} \cup {ThrownWithoutMessage}}
    \cup {Response(EmptyText), Response(Prose("essay text"))}
    \cup (IF fn \in StringFns THEN {} ELSE {Response(Doc("json", d)) : d \in JsonDocs(fn)})

\* The Question fields the prompt builders read.
PromptQuestion(text, scheme, marks) ==
    [questionText |-> text, markScheme |-> scheme, maxMarks |-> marks]
NoPromptQuestion == PromptQuestion("", "", 0)
PromptQuestions ==
    {PromptQuestion(t, m, n) : t \in {"Q-text-1"}, m \in {"MS-text-1"},
                               n \in {8, 12, 10}}
QuestionFns == {"generateModelAnswer", "gradeEssay", "getRealTimeCoaching"}
QuestionsFor(fn) == IF fn \in QuestionFns THEN PromptQuestions ELSE {NoPromptQuestion}

\* geminiService.ts generateModelAnswer: instructions
generateModelAnswer_instructions(maxMarks) ==
    IF maxMarks = 8 THEN "**STRICT STRUCTURE FOR 8 MARKS (Part a):**"
    ELSE IF maxMarks = 12 THEN "**STRICT STRUCTURE FOR 12 MARKS (Part b):**"
    ELSE "**General High-Standard Requirements:**"

\* geminiService.ts gradeEssay: gradingRubric
gradeEssay_gradingRubric(maxMarks) ==
    IF maxMarks = 8 THEN "**Strict Marking Logic (Part a - 8 Marks):**"
    ELSE "**Strict Marking Logic (Part b - 12 Marks):**"

\* geminiService.ts getRealTimeCoaching: distribution
getRealTimeCoaching_distribution(maxMarks) ==
    IF maxMarks = 8 THEN "Max Marks Distribution: AO1: 3, AO2: 3, AO3: 2"
    ELSE IF maxMarks = 12 THEN "Max Marks Distribution: AO1+AO2: 8, AO3: 4."
    ELSE "Max Marks: " \o ToString(maxMarks)

StudentText == "student text"

\* The prompt of a request, as the sequence of its template's labels and the
\* values interpolated after them.  Only the builders that take a Question
\* are rendered.
Prompt_gs(fn, question) ==
    CASE fn = "generateModelAnswer" ->
            <<"**Question:**", question.questionText,
              "**Max Marks:**", ToString(question.maxMarks),
              "**Mark Scheme Guidance:**", question.markScheme,
              "**Instructions:**", generateModelAnswer_instructions(question.maxMarks)>>
      [] fn = "gradeEssay" ->
            <<"**Question:**", question.questionText,
              "**Max Marks:**", ToString(question.maxMarks),
              "**Official Mark Scheme Guidance:**", question.markScheme,
              "**Rubric:**", gradeEssay_gradingRubric(question.maxMarks),
              "**Student Essay:**", StudentText,
              "Give a specific mark out of", ToString(question.maxMarks)>>
      [] fn = "getRealTimeCoaching" ->
            <<"**Question:**", question.questionText,
              "**Total Marks:**", ToString(question.maxMarks),
              getRealTimeCoaching_distribution(question.maxMarks),
              "**Mark Scheme:**", question.markScheme,
              "**Current Draft:**", StudentText>>
      [] OTHER -> <<>>

Prompt_p0(fn, question) ==
    CASE fn = "generateModelAnswer" ->
            <<"Question:", question.questionText,
              "CIE_OFFICIAL_RUBRIC", "CIE_LOGIC_TRUTH", "FORMATTING_PROTOCOL">>
      [] fn = "gradeEssay" ->
            <<"Question:", question.questionText,
              "Mark Scheme:", question.markScheme,
              "Student Work:", StudentText,
              "CIE_OFFICIAL_RUBRIC", "CIE_LOGIC_TRUTH", "FORMATTING_PROTOCOL">>
      [] fn = "getRealTimeCoaching" ->
            <<"Analyze current draft:", StudentText,
              "Question:", question.questionText,
              "CIE_OFFICIAL_RUBRIC", "CIE_LOGIC_TRUTH", "FORMATTING_PROTOCOL">>
      [] OTHER -> <<>>

NoSvcCall ==
    [fn |-> "<none>", blanks |-> <<>>, chapterTitle |-> "", questionCount |-> 0,
     question |-> NoPromptQuestion, prompt |-> <<>>]
SvcCallOf(fn, question, prompt) ==
    [fn |-> fn,
     blanks |-> IF fn = "evaluateClozeAnswers" THEN <<1, 2, 3>> ELSE <<>>,
     chapterTitle |-> IF fn = "analyzeTopicMarkSchemes" THEN "X" ELSE "",
     questionCount |-> IF fn = "analyzeTopicMarkSchemes" THEN 2 ELSE 0,
     question |-> question,
     prompt |-> prompt]

\* An exported function up to its first await: the credential check, then the
\* generateContent request.
svcInvoke(fn, question) ==
    /\ svcPc \in {"idle", "done"}
    /\ fn \in SvcFns(svcVariant)
    /\ question \in QuestionsFor(fn)
    /\ svcReply' = NoReply
    /\ LET check == IF svcVariant = "geminiService.ts"
                    THEN checkForApiKey(apiKey) ELSE getAIClient(apiKey)
           client == svcVariant = "part_000" \/ aiDefined(apiKey)
           prompt == IF svcVariant = "geminiService.ts"
                     THEN Prompt_gs(fn, question) ELSE Prompt_p0(fn, question)
       IN  /\ credentialCheck' = IF check.kind = "throw" THEN "failed" ELSE "passed"
           /\ IF check.kind = "throw"
              THEN /\ requests' = 0
                   /\ svcCall' = SvcCallOf(fn, question, <<>>)
                   /\ svcResult' = Catch(svcVariant, fn, check.error)
                   /\ svcPc' = "done"
              ELSE IF ~client
              THEN /\ requests' = 0
                   /\ svcCall' = SvcCallOf(fn, question, prompt)
                   /\ svcResult' = Catch(svcVariant, fn, TypeError)
                   /\ svcPc' = "done"
              ELSE /\ requests' = 1
                   /\ svcCall' = SvcCallOf(fn, question, prompt)
                   /\ svcResult' = Pending
                   /\ svcPc' = "await"
    /\ UNCHANGED <<batchVars, graderVars, appVariant, catalogVars, workVars, analysisVars, svcVariant, apiKey>>
    /\ PersistEffects

\* The function after its await, to the settling of its promise.
svcResume(reply) ==
    /\ svcPc = "await"
    /\ reply \in Replies(svcCall.fn)
    /\ svcReply' = reply
    /\ svcResult' = IF reply.kind = "throw"
                    THEN Catch(svcVariant, svcCall.fn, reply.error)
                    ELSE Settle(svcVariant, svcCall.fn, Then(svcVariant, svcCall, reply.text))
    /\ svcPc' = "done"
    /\ UNCHANGED <<batchVars, graderVars, appVariant, catalogVars, workVars, analysisVars, svcVariant, apiKey,
                   svcCall, requests, credentialCheck>>
    /\ PersistEffects

(***************************************************************************)
(* Initial states: each slice is the deserialized stored document, or the  *)
(* empty container.                                                        *)
(***************************************************************************)
(***************************************************************************)
(* part_001 handleBatchGenerate.  The loop runs over the allQuestions and  *)
(* reads the questionStates its closure captured; it stops at each await.  *)
(***************************************************************************)
BatchEvent(ev, id, failed) == [ev |-> ev, id |-> id, failed |-> failed]

NoBatch ==
    [pc |-> "idle", queue |-> <<>>, states |-> EmptyMap, count |-> 0,
     essay |-> "", clozeData |-> UNDEFINED, runs |-> 0]

\* `${count} / ${total}`
Progress(count, total) == ToString(count) \o " / " \o ToString(total)

\* What a call of an export can settle with, and whether the call failed.
BatchOutcomes(fn) ==
    LET check == IF svcVariant = "geminiService.ts"
                 THEN checkForApiKey(apiKey) ELSE getAIClient(apiKey)
        call == SvcCallOf(fn, NoPromptQuestion, <<>>)
    IN  IF check.kind = "throw"
        THEN {[failed |-> TRUE, result |-> Catch(svcVariant, fn, check.error)]}
        ELSE {[failed |-> reply.kind = "throw",
               result |-> IF reply.kind = "throw"
                          THEN Catch(svcVariant, fn, reply.error)
                          ELSE Settle(svcVariant, fn, Then(svcVariant, call, reply.text))] :
                 reply \in Replies(fn)}

RECURSIVE BatchLoop(_, _, _)
RECURSIVE BatchCloze(_, _, _)

\* A loop that ends at once, whatever is left of the catalog.
BatchLoopEnds(b, qs, log) ==
    [batch |-> [b EXCEPT !.pc = "idle"],
     questionStates |-> qs,
     log |-> Append(log, BatchEvent("alert", "", FALSE)),
     isBatchProcessing |-> FALSE,
     batchProgress |-> ""]

\* Lines 203-217 for the current item, then the rest of the loop.
BatchCloze(b, qs, log) ==
    LET q == b.queue[b.count]
    IN  IF b.essay # "" /\ b.clozeData = UNDEFINED
        THEN [batch |-> [b EXCEPT !.pc = "awaitCloze"],
              questionStates |-> qs,
              log |-> Append(log, BatchEvent("requestCloze", q.id, FALSE)),
              isBatchProcessing |-> TRUE,
              batchProgress |-> Progress(b.count, Len(b.queue))]
        ELSE BatchLoop(b,
                       MergeState(qs, q.id, [generatorEssay |-> b.essay,
                                             clozeData |-> b.clozeData]),
                       Append(log, BatchEvent("update", q.id, FALSE)))

\* Lines 181-195 from the head of the loop, and lines 220-222 after it.
BatchLoop(b, qs, log) ==
    IF b.count = Len(b.queue)
    THEN [batch |-> [b EXCEPT !.pc = "idle"],
          questionStates |-> qs,
          log |-> Append(log, BatchEvent("alert", "", FALSE)),
          isBatchProcessing |-> FALSE,
          batchProgress |-> ""]
    ELSE LET q == b.queue[b.count + 1]
             state == IF q.id \in DOMAIN b.states THEN b.states[q.id]
                      ELSE DefaultQuestionState
             essay == state.generatorEssay
             clozeData == IF "clozeData" \in DOMAIN state THEN state.clozeData
                          ELSE UNDEFINED
             b1 == [b EXCEPT !.count = b.count + 1, !.essay = essay,
                             !.clozeData = clozeData]
             log1 == Append(log, BatchEvent("visit", q.id, FALSE))
         IN  IF essay = ""
             THEN [batch |-> [b1 EXCEPT !.pc = "awaitEssay"],
                   questionStates |-> qs,
                   log |-> Append(log1, BatchEvent("requestEssay", q.id, FALSE)),
                   isBatchProcessing |-> TRUE,
                   batchProgress |-> Progress(b1.count, Len(b.queue))]
             ELSE BatchCloze(b1, qs, log1)

BatchContinue(next) ==
    /\ batch' = next.batch
    /\ questionStates' = next.questionStates
    /\ batchLog' = next.log
    /\ isBatchProcessing' = next.isBatchProcessing
    /\ batchProgress' = next.batchProgress
    /\ UNCHANGED <<graderVars, appVariant, catalogVars, updateLog, analysisVars, svcVars>>
    /\ PersistEffects

\* handleBatchGenerate up to its first await.
handleBatchGenerate(confirmed) ==
    /\ appVariant = "part_001"
    /\ ~isBatchProcessing
    /\ batch.pc = "idle"
    /\ batch.runs < MaxRuns
    /\ IF confirmed
       THEN BatchContinue(BatchLoop([NoBatch EXCEPT !.queue = allQuestions,
                                                    !.states = questionStates,
                                                    !.runs = batch.runs + 1],
                                    questionStates, <<>>))
       ELSE UNCHANGED vars

\* essay = await generateModelAnswer(q), up to the next await.
batchResumeEssay(outcome) ==
    /\ batch.pc = "awaitEssay"
    /\ outcome \in BatchOutcomes("generateModelAnswer")
    /\ LET q == batch.queue[batch.count]
       IN  IF outcome.result.kind = "rejected"
           THEN BatchContinue(BatchLoop(batch, questionStates,
                                        Append(batchLog, BatchEvent("skip", q.id, TRUE))))
           ELSE /\ batch' = [batch EXCEPT !.pc = "delayEssay",
                                          !.essay = outcome.result.value.v]
                /\ batchLog' = Append(batchLog, BatchEvent("essay", q.id, outcome.failed))
                /\ UNCHANGED <<graderVars, appVariant, catalogVars, workVars, analysisVars, svcVars,
                               isBatchProcessing, batchProgress>>
                /\ PersistEffects

\* const result = await generateClozeExercise(essay), up to the next await.
batchResumeCloze(outcome) ==
    /\ batch.pc = "awaitCloze"
    /\ outcome \in BatchOutcomes("generateClozeExercise")
    /\ batch' = [batch EXCEPT !.pc = "delayCloze",
                              !.clozeData = IF JTruthy(outcome.result.value)
                                            THEN "cloze data" ELSE batch.clozeData]
    /\ batchLog' = Append(batchLog,
                          BatchEvent("cloze", batch.queue[batch.count].id, outcome.failed))
    /\ UNCHANGED <<graderVars, appVariant, catalogVars, workVars, analysisVars, svcVars,
                   isBatchProcessing, batchProgress>>
    /\ PersistEffects

\* await new Promise(r => setTimeout(r, 4000)): the timer fires.
batchDelayDone ==
    /\ batch.pc \in {"delayEssay", "delayCloze"}
    /\ LET log == Append(batchLog, BatchEvent("delay", batch.queue[batch.count].id, FALSE))
       IN  IF batch.pc = "delayEssay"
           THEN BatchContinue(BatchCloze(batch, questionStates, log))
           ELSE BatchContinue(
                    BatchLoop(batch,
                              MergeState(questionStates, batch.queue[batch.count].id,
                                         [generatorEssay |-> batch.essay,
                                          clozeData |-> batch.clozeData]),
                              Append(log, BatchEvent("update", batch.queue[batch.count].id,
                                                     FALSE))))

BatchIdle ==
    /\ isBatchProcessing = FALSE
    /\ batchProgress = ""
    /\ batch = NoBatch
    /\ batchLog = <<>>

(***************************************************************************)
(* EssayGrader.handleGrade, and the mode tabs of App that mount it.        *)
(***************************************************************************)
\* App: onClick={() => setMode(m)}
setMode(m) ==
    /\ selectedQuestion.id # NULL
    /\ mode' = m
    /\ GraderRender(selectedQuestion, m)
    /\ UNCHANGED <<batchVars, appVariant, initialQuestions, customQuestions, deletedIds,
                   allQuestions, selectedQuestion, workVars, analysisVars, svcVars>>
    /\ PersistEffects

\* A state the updater is given instead of React's current one.
UpdaterBaseCaptured(prev, captured) == captured

\* setQuestionStates(prev => ...): the updater is applied to the current state.
UpdaterBase(prev, captured) == prev

GradeCallsStarted == Cardinality(gradeCalls) + Len(gradeLog)

\* A save that goes to the question selected when the response arrives.
SaveTargetCurrent(callId, selectedId) == selectedId

\* onSave={(input, feedback) => updateQuestionState(selectedQuestion.id, ...)}
\* as handleGrade holds it: the onSave of the render the click happened in.
SaveTarget(callId, selectedId) == callId

\* savedInput and savedFeedback of the current render.  The effect on
\* [savedInput, savedFeedback, question.id] copies them into the instance's
\* input and feedback after every render in which they changed.
SavedField(id, f) ==
    IF id \in DOMAIN questionStates /\ f \in DOMAIN questionStates[id]
    THEN questionStates[id][f] ELSE ""
GraderInput == SavedField(selectedQuestion.id, "graderEssay")
GraderFeedback == SavedField(selectedQuestion.id, "graderFeedback")

\* handleGrade up to its await.  The call keeps the props and state of the
\* render it was created in: question, input, onSave.
handleGrade(input) ==
    /\ GraderMounted(selectedQuestion, mode)
    /\ ~graderLoading
    /\ input # ""
    /\ GradeCallsStarted < MaxUpdates
    /\ graderLoading' = TRUE
    /\ gradeCalls' =
          {[c EXCEPT !.with = c.with \cup {GradeCallsStarted + 1}] : c \in gradeCalls}
          \cup {[seq |-> GradeCallsStarted + 1,
                 id |-> selectedQuestion.id,
                 input |-> input,
                 mounted |-> TRUE,
                 captured |-> questionStates,
                 with |-> {c.seq : c \in gradeCalls}]}
    /\ UNCHANGED <<batchVars, appVariant, catalogVars, workVars, analysisVars, svcVars,
                   gradeLog>>
    /\ PersistEffects

\* handleGrade after its await: setFeedback, onSave, setLoading(false).
handleGradeResume(call, outcome) ==
    /\ call \in gradeCalls
    /\ outcome \in BatchOutcomes("gradeEssay")
    /\ gradeCalls' = gradeCalls \ {call}
    /\ IF outcome.result.kind = "rejected"
       THEN /\ gradeLog' = Append(gradeLog, [call |-> call, saved |-> FALSE, result |-> ""])
            /\ UNCHANGED <<questionStates, graderLoading>>
       ELSE /\ gradeLog' = Append(gradeLog, [call |-> call, saved |-> TRUE,
                                             result |-> outcome.result.value.v])
            /\ questionStates' =
                  MergeState(UpdaterBase(questionStates, call.captured),
                             SaveTarget(call.id, selectedQuestion.id),
                             [graderEssay |-> call.input,
                              graderFeedback |-> outcome.result.value.v])
            /\ graderLoading' = IF call.mounted THEN FALSE ELSE graderLoading
    /\ UNCHANGED <<batchVars, appVariant, catalogVars, updateLog, analysisVars, svcVars>>
    /\ PersistEffects

\* handleChange: setInput(newValue); onSave(newValue, feedback)
handleChange(newValue) ==
    /\ GraderMounted(selectedQuestion, mode)
    /\ questionStates' = MergeState(questionStates, selectedQuestion.id,
                                    [graderEssay |-> newValue,
                                     graderFeedback |-> GraderFeedback])
    /\ UNCHANGED <<batchVars, graderVars, appVariant, catalogVars, updateLog, analysisVars,
                   svcVars>>
    /\ PersistEffects

GraderIdle ==
    /\ graderLoading = FALSE
    /\ gradeCalls = {}
    /\ gradeLog = <<>>

WorkIdle ==
    /\ questionStates = EmptyMap
    /\ updateLog = <<>>

AnalysisIdle ==
    /\ topicAnalyses = EmptyMap
    /\ selectedChapter = "X"
    /\ isAnalyzing = FALSE
    /\ analyzeCall = NoCall
    /\ analysisLog = <<>>
    /\ analysisOutcome = "none"

SvcIdle ==
    /\ svcVariant = "geminiService.ts"
    /\ apiKey = JUndef
    /\ svcCall = NoSvcCall
    /\ svcPc = "idle"
    /\ requests = 0
    /\ svcReply = NoReply
    /\ svcResult = Pending
    /\ credentialCheck = "none"

CatalogInit ==
    /\ appVariant \in AppVariants
    /\ initialQuestions \in {s \in SeqsUpTo(BaseQuestions, MaxBase) : UniqueIds(s)}
    /\ customQuestions \in SeqsUpTo(CatalogQuestions, MaxCustom)
    /\ deletedIds \in SeqsUpTo(QIds, MaxDeleted)
    /\ allQuestions = ComputeAllQuestions(initialQuestions, customQuestions, deletedIds)
    /\ selectedQuestion = NoQuestion
    /\ mode = "GENERATOR"
    /\ WorkIdle
    /\ AnalysisIdle
    /\ SvcIdle
    /\ BatchIdle
    /\ GraderIdle
    /\ StorageLoaded

CatalogNext ==
    \/ \E q \in CatalogQuestions : handleSaveQuestion_App(q)
    \/ \E q \in CatalogQuestions : handleSaveQuestion_p1(q)
    \/ \E id \in QIds, confirmed \in BOOLEAN : handleDeleteQuestion_App(id, confirmed)
    \/ \E id \in QIds, confirmed \in BOOLEAN : handleDeleteQuestion_p1(id, confirmed)
    \/ \E q \in CatalogQuestions : onSelectQuestion(q)

SpecCatalog == CatalogInit /\ [][CatalogNext]_vars

CatalogIdle ==
    /\ initialQuestions = <<>>
    /\ customQuestions = <<>>
    /\ deletedIds = <<>>
    /\ allQuestions = <<>>
    /\ selectedQuestion = NoQuestion
    /\ mode = "GENERATOR"

\* The work documents a previous session of the program can have stored.
StoredWork ==
    {EmptyMap,
     [k \in {"q1"} |-> Spread(DefaultQuestionState, [generatorEssay |-> "a"])],
     [k \in {"q1", "q2"} |->
        IF k = "q1"
        THEN Spread(DefaultQuestionState, [graderEssay |-> "b", graderFeedback |-> "a"])
        ELSE Spread(DefaultQuestionState, [realTimeEssay |-> "b", clozeData |-> "a"])]}

WorkInit ==
    /\ appVariant \in AppVariants
    /\ CatalogIdle
    /\ questionStates \in StoredWork
    /\ updateLog = <<>>
    /\ AnalysisIdle
    /\ SvcIdle
    /\ BatchIdle
    /\ GraderIdle
    /\ StorageLoaded

WorkNext ==
    \E id \in WorkIds : \E updates \in Updates(appVariant) : updateQuestionState(id, updates)

SpecWork == WorkInit /\ [][WorkNext]_vars

AnalysisBase == {Question(i, "t1", c) : i \in BaseIds, c \in Chapters}

\* The analyses a previous session of the program can have stored.
StoredAnalyses ==
    {EmptyMap, [k \in {"X"} |-> ChapterAnalysis("X", 1, "p1")]}

AnalysisInit ==
    /\ appVariant \in AppVariants
    /\ initialQuestions \in {s \in SeqsUpTo(AnalysisBase, MaxBase) : UniqueIds(s)}
    /\ customQuestions = <<>>
    /\ deletedIds = <<>>
    /\ allQuestions = ComputeAllQuestions(initialQuestions, customQuestions, deletedIds)
    /\ selectedQuestion = NoQuestion
    /\ mode = "ANALYSIS"
    /\ WorkIdle
    /\ topicAnalyses \in StoredAnalyses
    /\ selectedChapter \in Chapters
    /\ isAnalyzing = FALSE
    /\ analyzeCall = NoCall
    /\ analysisLog = <<>>
    /\ analysisOutcome = "none"
    /\ SvcIdle
    /\ BatchIdle
    /\ GraderIdle
    /\ StorageLoaded

AnalysisNext ==
    \/ \E ch \in Chapters : setSelectedChapter(ch)
    \/ handleAnalyze
    \/ \E result \in {NoAnalysis} \cup
                       {ChapterAnalysis(ch, n, p) :
                           ch \in Chapters, n \in 1..MaxBase, p \in AnalysisPoints} :
          handleAnalyzeResume(result)
    \/ \E id \in QIds : handleDeleteQuestion_App(id, TRUE)
    \/ \E id \in QIds : handleDeleteQuestion_p1(id, TRUE)

SpecAnalysis == AnalysisInit /\ [][AnalysisNext]_vars

SvcInit ==
    /\ appVariant = "App.tsx"
    /\ CatalogIdle
    /\ WorkIdle
    /\ AnalysisIdle
    /\ svcVariant \in SvcVariants
    /\ apiKey \in ApiKeys
    /\ svcCall = NoSvcCall
    /\ svcPc = "idle"
    /\ requests = 0
    /\ svcReply = NoReply
    /\ svcResult = Pending
    /\ credentialCheck = "none"
    /\ BatchIdle
    /\ GraderIdle
    /\ StorageLoaded

SvcNext ==
    \/ \E fn \in StringFns \cup JsonFns \cup {"improveSnippet"} :
          \E question \in QuestionsFor(fn) : svcInvoke(fn, question)
    \/ svcPc = "await" /\ \E reply \in Replies(svcCall.fn) : svcResume(reply)

SpecSvc == SvcInit /\ [][SvcNext]_vars

\* The work documents a batch run can start from.
BatchStoredWork ==
    {EmptyMap,
     [k \in {"q1"} |-> Spread(DefaultQuestionState, [generatorEssay |-> "a"])],
     [k \in {"q1", "q2"} |->
        IF k = "q1"
        THEN Spread(DefaultQuestionState, [generatorEssay |-> "a", clozeData |-> "b"])
        ELSE Spread(DefaultQuestionState, [graderEssay |-> "b"])]}

BatchInit ==
    /\ appVariant = "part_001"
    /\ initialQuestions \in {s \in SeqsUpTo(BaseQuestions, MaxBase) : UniqueIds(s)}
    /\ customQuestions = <<>>
    /\ deletedIds = <<>>
    /\ allQuestions = ComputeAllQuestions(initialQuestions, customQuestions, deletedIds)
    /\ selectedQuestion = NoQuestion
    /\ mode = "GENERATOR"
    /\ questionStates \in BatchStoredWork
    /\ updateLog = <<>>
    /\ AnalysisIdle
    /\ svcVariant \in SvcVariants
    /\ apiKey \in {JUndef, JStr("AIza-key")}
    /\ svcCall = NoSvcCall
    /\ svcPc = "idle"
    /\ requests = 0
    /\ svcReply = NoReply
    /\ svcResult = Pending
    /\ credentialCheck = "none"
    /\ BatchIdle
    /\ GraderIdle
    /\ StorageLoaded

BatchStep ==
    \/ \E confirmed \in BOOLEAN : handleBatchGenerate(confirmed)
    \/ batch.pc = "awaitEssay" /\
         \E outcome \in BatchOutcomes("generateModelAnswer") : batchResumeEssay(outcome)
    \/ batch.pc = "awaitCloze" /\
         \E outcome \in BatchOutcomes("generateClozeExercise") : batchResumeCloze(outcome)
    \/ batchDelayDone

BatchNext ==
    \/ BatchStep
    \/ \E id \in QIds : handleDeleteQuestion_p1(id, TRUE)

SpecBatch == BatchInit /\ [][BatchNext]_vars

\* Every request returns and every timer fires.
SpecBatchFair == SpecBatch /\ WF_vars(BatchStep)

GradeInit ==
    /\ appVariant \in AppVariants
    /\ initialQuestions = <<Question("q1", "t1", "X"), Question("q2", "t1", "X")>>
    /\ customQuestions = <<>>
    /\ deletedIds = <<>>
    /\ allQuestions = ComputeAllQuestions(initialQuestions, customQuestions, deletedIds)
    /\ selectedQuestion = NoQuestion
    /\ mode = "GENERATOR"
    /\ questionStates \in {EmptyMap,
                           [k \in {"q1"} |-> Spread(DefaultQuestionState,
                                                    [generatorEssay |-> "a"])]}
    /\ updateLog = <<>>
    /\ AnalysisIdle
    /\ svcVariant \in SvcVariants
    /\ apiKey = JStr("AIza-key")
    /\ svcCall = NoSvcCall
    /\ svcPc = "idle"
    /\ requests = 0
    /\ svcReply = NoReply
    /\ svcResult = Pending
    /\ credentialCheck = "none"
    /\ BatchIdle
    /\ GraderIdle
    /\ StorageLoaded

GradeNext ==
    \/ \E q \in BaseQuestions : onSelectQuestion(q)
    \/ \E m \in {"GENERATOR", "GRADER"} : setMode(m)
    \/ \E input \in {"essay of " \o selectedQuestion.id} : handleGrade(input)
    \/ \E call \in gradeCalls :
          \E outcome \in BatchOutcomes("gradeEssay") : handleGradeResume(call, outcome)

SpecGrade == GradeInit /\ [][GradeNext]_vars

(***************************************************************************)
(* Claims.                                                                 *)
(***************************************************************************)
RECURSIVE RemoveDeleted(_, _)
RemoveDeleted(s, del) ==
    IF s = <<>> THEN <<>>
    ELSE (IF Head(s).id \in del THEN <<>> ELSE <<Head(s)>>) \o RemoveDeleted(Tail(s), del)

RECURSIVE NotInBase(_, _)
NotInBase(s, baseIds) ==
    IF s = <<>> THEN <<>>
    ELSE (IF Head(s).id \in baseIds THEN <<>> ELSE <<Head(s)>>) \o NotInBase(Tail(s), baseIds)

\* C1: the effective catalog is the base catalog in its order, each entry whose
\* id is in customQuestions replaced by a custom entry of that id (the custom
\* entry, when the id occurs once), followed by the custom entries whose id is
\* not in the base catalog in their stored order, with every entry whose id is
\* in deletedIds removed.
C1_EffectiveCatalog ==
    LET custom == customQuestions
        withId(id) == {custom[i] : i \in {j \in DOMAIN custom : custom[j].id = id}}
        replaced == [i \in DOMAIN initialQuestions |->
                        IF withId(initialQuestions[i].id) # {}
                        THEN CHOOSE q \in withId(initialQuestions[i].id) : TRUE
                        ELSE initialQuestions[i]]
        expected == RemoveDeleted(replaced \o NotInBase(custom, Ids(initialQuestions)),
                                  Range(deletedIds))
    IN  /\ Len(allQuestions) = Len(expected)
        /\ \A i \in DOMAIN expected :
              /\ allQuestions[i].id = expected[i].id
              /\ \/ allQuestions[i] = expected[i]
                 \/ /\ expected[i].id \in Ids(initialQuestions)
                    /\ allQuestions[i] \in withId(expected[i].id)

\* C1 witness: after a save handler appended, the catalog holds a replaced base
\* entry followed by an appended custom entry, and a deleted id is missing.
C1_Witness ==
    /\ Len(customQuestions) > MaxCustom
    /\ Len(allQuestions) >= 2
    /\ \E i \in DOMAIN allQuestions :
          /\ allQuestions[i].id \in Ids(initialQuestions)
          /\ allQuestions[i] \in Range(customQuestions)
          /\ allQuestions[i] \notin Range(initialQuestions)
    /\ \E i \in DOMAIN allQuestions : allQuestions[i].id \notin Ids(initialQuestions)
    /\ \E i \in DOMAIN deletedIds :
          deletedIds[i] \in Ids(initialQuestions) \cup Ids(customQuestions)

\* The state a logged updateQuestionState call left behind.
AfterUpdate(k) == IF k = Len(updateLog) THEN questionStates ELSE updateLog[k + 1].before
RecordBefore(k) ==
    IF updateLog[k].id \in DOMAIN updateLog[k].before
    THEN updateLog[k].before[updateLog[k].id] ELSE DefaultQuestionState

\* C2: updateQuestionState(id, updates) changes only the fields named in
\* updates of the record for id: every other field of that record keeps its
\* previous value (the empty-string default if there was no record), and the
\* records of all other ids are unchanged.
C2_UpdateFrame ==
    \A k \in DOMAIN updateLog :
        LET call == updateLog[k]
            after == AfterUpdate(k)
        IN  /\ DOMAIN after = DOMAIN call.before \cup {call.id}
            /\ \A other \in DOMAIN call.before \ {call.id} : after[other] = call.before[other]
            /\ DOMAIN after[call.id] = DOMAIN RecordBefore(k) \cup DOMAIN call.updates
            /\ \A f \in DOMAIN after[call.id] \ DOMAIN call.updates :
                  after[call.id][f] = RecordBefore(k)[f]

\* C2 witness: an update of an existing record that held a non-default value in
\* a field the update does not name, while another id had a record too.
C2_Witness ==
    \E k \in DOMAIN updateLog :
        LET call == updateLog[k]
        IN  /\ call.id \in DOMAIN call.before
            /\ DOMAIN call.before # {call.id}
            /\ \E f \in DOMAIN call.before[call.id] \ DOMAIN call.updates :
                  call.before[call.id][f] # ""
            /\ AfterUpdate(k) # call.before

Disjoint(u1, u2) == DOMAIN u1 \cap DOMAIN u2 = {}

\* C3: two updates of one id that set disjoint fields give the same
\* questionStates in either order, and the result holds both updates' values.
C3_DisjointUpdatesCommute ==
    \A k \in DOMAIN updateLog :
        (/\ k + 1 \in DOMAIN updateLog
         /\ updateLog[k].id = updateLog[k + 1].id
         /\ Disjoint(updateLog[k].updates, updateLog[k + 1].updates))
        => LET id == updateLog[k].id
               u1 == updateLog[k].updates
               u2 == updateLog[k + 1].updates
               after == AfterUpdate(k + 1)
           IN  /\ after = MergeState(MergeState(updateLog[k].before, id, u2), id, u1)
               /\ \A f \in DOMAIN u1 : after[id][f] = u1[f]
               /\ \A f \in DOMAIN u2 : after[id][f] = u2[f]

\* C3 witness: two consecutive updates of one id with disjoint fields were applied.
C3_Witness ==
    \E k \in DOMAIN updateLog :
        /\ k + 1 \in DOMAIN updateLog
        /\ updateLog[k].id = updateLog[k + 1].id
        /\ Disjoint(updateLog[k].updates, updateLog[k + 1].updates)
        /\ updateLog[k].id \in DOMAIN updateLog[k].before

\* C4: when an analysis is computed successfully for a chapter twice in a row
\* with different results, the entry stored under that chapter after the second
\* computation is exactly the second result, and the entries under the other
\* chapter keys are unchanged by it.
C4_AnalysisReplaced ==
    \A k \in DOMAIN analysisLog :
        (/\ k > 1
         /\ analysisLog[k - 1].chapter = analysisLog[k].chapter
         /\ analysisLog[k - 1].result # analysisLog[k].result)
        => LET e == analysisLog[k]
           IN  /\ e.chapter \in DOMAIN e.after
               /\ e.after[e.chapter] = e.result
               /\ \A other \in (DOMAIN e.before \cup DOMAIN e.after) \ {e.chapter} :
                     /\ other \in DOMAIN e.before
                     /\ other \in DOMAIN e.after
                     /\ e.after[other] = e.before[other]


(***************************************************************************)
(* The service.                                                            *)
(***************************************************************************)
GenerationFns == StringFns \cup JsonFns
NoCredential == apiKey \in {JUndef, JStr("")}
SvcDone == svcPc = "done" /\ svcCall.fn \in GenerationFns

\* The strings of the catch blocks that tell the user to configure the key.
InstructionMessages ==
    {"Error: API Key is missing in Vercel Settings. Please configure it and redeploy.",
     "Error: API Key is missing in Vercel Settings.",
     "Failed to analyze question. Check API Key.",
     "Failed to generate. Please check if API_KEY is set in Vercel settings."}
IsString(x) == x.t = "string"
IsInstruction(x) == IsString(x) /\ x.v \in InstructionMessages
IsZeroCoaching(x) ==
    /\ x.t = "object"
    /\ \A f \in {"ao1", "ao2", "ao3", "total"} : Get(x, f) = JNum(0)
    /\ IsString(Get(x, "advice")) /\ Get(x, "advice").v # ""

C6_NeverRejects ==
    svcPc = "done" =>
        svcResult.kind = "fulfilled" /\ svcResult.value.t \in {"string", "object", "null"}

\* C7: a credential that is absent, empty or the literal string "undefined"
\* is treated as not configured by the service: the credential check fails
\* and no client request is made with it.
C7_UnconfiguredCredentialRefused ==
    (apiKey \in {JUndef, JStr(""), JStr("undefined")} /\ svcPc # "idle") =>
        credentialCheck = "failed" /\ requests = 0

\* C8: the credential check happens before the network call: when the
\* credential is missing, the invocation issues no generateContent request.
C8_CheckBeforeRequest ==
    NoCredential => requests = 0 /\ svcPc # "await"

C8_Witness ==
    /\ apiKey = JStr("")
    /\ svcPc = "done"
    /\ credentialCheck = "failed"
    /\ requests = 0

\* The feedback items of the response that carry a usable id.
ParsedReply == ParseOrEmpty(svcReply.text)
UsableIds(feedback) ==
    IF feedback.t # "array" THEN {}
    ELSE {ToString(Get(feedback.v[i], "id").v) :
            i \in {j \in DOMAIN feedback.v :
                      feedback.v[j].t = "object" /\ Get(feedback.v[j], "id").t = "number"}}
ClozeAnswered ==
    /\ svcPc = "done"
    /\ svcCall.fn = "evaluateClozeAnswers"
    /\ svcReply.kind = "response"
    /\ ParsedReply.kind = "return"
    /\ ParsedReply.value.t = "object"
    /\ Get(ParsedReply.value, "feedback").t \in {"undefined", "array"}

\* C9: evaluateClozeAnswers builds its map keyed by each feedback item's own
\* id, leaves out without an error every item that has no usable id, and
\* returns an empty map when the response has no feedback list.
C9_KeyedByUsableId ==
    ClozeAnswered =>
        /\ svcResult.kind = "fulfilled"
        /\ svcResult.value.t = "object"
        /\ DOMAIN svcResult.value.v = UsableIds(Get(ParsedReply.value, "feedback"))

\* C10: every entry of the map evaluateClozeAnswers returns has a defined
\* integer score (an item that lacks a score is left out), and the function
\* does not throw.
C10_ScoresDefined ==
    (svcPc = "done" /\ svcCall.fn = "evaluateClozeAnswers") =>
        /\ svcResult.kind = "fulfilled"
        /\ svcResult.value.t = "object" =>
              \A k \in DOMAIN svcResult.value.v :
                  /\ svcResult.value.v[k].t = "object"
                  /\ Get(svcResult.value.v[k], "score").t = "number"

\* C11: each key of the feedback map evaluateClozeAnswers returns is the id
\* of some blank of the blanks list passed in.
C11_KeysAreBlankIds ==
    (svcPc = "done" /\ svcCall.fn = "evaluateClozeAnswers"
        /\ svcResult.kind = "fulfilled" /\ svcResult.value.t = "object") =>
        DOMAIN svcResult.value.v \subseteq {ToString(svcCall.blanks[i]) : i \in DOMAIN svcCall.blanks}


CoachingFields == {"ao1", "ao2", "ao3", "total", "advice"}
CoachingAnswered ==
    /\ svcPc = "done"
    /\ svcCall.fn = "getRealTimeCoaching"
    /\ svcReply.kind = "response"
    /\ ParsedReply.kind = "return"
    /\ ParsedReply.value.t = "object"

\* C12: getRealTimeCoaching always returns a record with all five fields
\* defined whatever JSON the model returned: a missing ao1, ao2, ao3 or total
\* is replaced by zero and a missing advice by the empty string.
C12_CoachingDefaults ==
    (svcPc = "done" /\ svcCall.fn = "getRealTimeCoaching") =>
        /\ svcResult.kind = "fulfilled"
        /\ svcResult.value.t = "object"
        /\ \A f \in CoachingFields : Get(svcResult.value, f).t # "undefined"
        /\ CoachingAnswered =>
              \A f \in CoachingFields :
                  Get(ParsedReply.value, f).t = "undefined" =>
                      Get(svcResult.value, f) = (IF f = "advice" THEN JStr("") ELSE JNum(0))


ExpectedFields(fn) ==
    IF fn = "generateClozeExercise" THEN {"textWithBlanks", "blanks"}
    ELSE {"chapter", "lastUpdated", "questionCount", "ao1", "ao2", "ao3", "debates"}

\* C13: generateClozeExercise and analyzeTopicMarkSchemes return either null
\* or a result in which every expected field is defined.
C13_NullOrFullyDefined ==
    (svcPc = "done" /\ svcCall.fn \in {"generateClozeExercise", "analyzeTopicMarkSchemes"}) =>
        /\ svcResult.kind = "fulfilled"
        /\ \/ svcResult.value = JNull
           \/ /\ svcResult.value.t = "object"
              /\ \A f \in ExpectedFields(svcCall.fn) : Get(svcResult.value, f).t # "undefined"


\* The response text of a JSON-shaped request is not valid JSON.
InvalidJsonAnswered ==
    /\ svcPc = "done"
    /\ svcCall.fn \in JsonFns
    /\ svcReply.kind = "response"
    /\ svcReply.text.raw # ""
    /\ ~svcReply.text.parses

QuestionPromptSent ==
    /\ svcPc \in {"await", "done"}
    /\ requests = 1
    /\ svcCall.fn \in QuestionFns

\* C15: the prompt rendered by each prompt builder that takes a Question
\* includes both the question's questionText and its markScheme unchanged.
C15_PromptHasTextAndScheme ==
    QuestionPromptSent =>
        /\ svcCall.question.questionText \in Range(svcCall.prompt)
        /\ svcCall.question.markScheme \in Range(svcCall.prompt)

EightMarkRubrics ==
    {"**STRICT STRUCTURE FOR 8 MARKS (Part a):**", "**Strict Marking Logic (Part a - 8 Marks):**",
     "Max Marks Distribution: AO1: 3, AO2: 3, AO3: 2"}
TwelveMarkRubrics ==
    {"**STRICT STRUCTURE FOR 12 MARKS (Part b):**", "**Strict Marking Logic (Part b - 12 Marks):**",
     "Max Marks Distribution: AO1+AO2: 8, AO3: 4."}

\* C16: in every prompt builder that selects a rubric by maxMarks, a maxMarks
\* value other than 8 and 12 selects the generic rubric, never the 8-mark or
\* the 12-mark rubric.
C16_OtherMarksGenericRubric ==
    (QuestionPromptSent /\ svcVariant = "geminiService.ts"
        /\ svcCall.question.maxMarks \notin {8, 12}) =>
        Range(svcCall.prompt) \cap (EightMarkRubrics \cup TwelveMarkRubrics) = {}


(***************************************************************************)
(* The batch run.                                                          *)
(***************************************************************************)
BatchRequests == {"requestEssay", "requestCloze"}
BatchAnswers == {"essay", "cloze", "skip"}
CountEvents(log, evs) == Cardinality({i \in DOMAIN log : log[i].ev \in evs})

\* C17: the batch loop has at most one generation request outstanding at any
\* time, and after each request it issues a delay step completes before the
\* loop issues its next request.
C17_OneRequestThenDelay ==
    /\ CountEvents(batchLog, BatchRequests) - CountEvents(batchLog, BatchAnswers) \in {0, 1}
    /\ \A i, j \in DOMAIN batchLog :
          (i < j /\ batchLog[i].ev \in BatchRequests /\ batchLog[j].ev \in BatchRequests) =>
              \E k \in (i + 1)..(j - 1) : batchLog[k].ev = "delay"

\* C18: when model-answer generation fails for an item of a batch run, no
\* state update is written for the item in that run, the loop goes on to the
\* next item, and the item's essay is not requested again in the run.
C18_FailedItemSkipped ==
    \A i \in DOMAIN batchLog :
        (batchLog[i].ev \in {"essay", "skip"} /\ batchLog[i].failed) =>
            /\ \A j \in (i + 1)..Len(batchLog) :
                  batchLog[j].id = batchLog[i].id =>
                      batchLog[j].ev \notin {"update", "requestEssay"}
            /\ (batch.pc = "idle" /\ i < Len(batchLog)) =>
                  \E j \in (i + 1)..Len(batchLog) :
                      /\ batchLog[j].ev \in {"visit", "alert"}
                      /\ \A k \in (i + 1)..(j - 1) : batchLog[k].id = batchLog[i].id

BatchFinished ==
    /\ batch.pc = "idle"
    /\ batchLog # <<>>
    /\ batchLog[Len(batchLog)].ev = "alert"
Visits == SelectSeq(batchLog, LAMBDA e : e.ev = "visit")
BatchVisitedOnce ==
    /\ Len(Visits) = Len(batch.queue)
    /\ \A i \in DOMAIN Visits : Visits[i].id = batch.queue[i].id
    /\ CountEvents(batchLog, {"alert"}) = 1
    /\ isBatchProcessing = FALSE
    /\ batchProgress = ""

\* C19: a started batch run, when every request eventually returns, visits
\* each question of the catalog captured at its start exactly once, in order,
\* and then finishes: isBatchProcessing is false, batchProgress is cleared and
\* the completion alert is shown, whatever items failed.
C19_BatchVisitsAllAndFinishes ==
    /\ [](BatchFinished => BatchVisitedOnce)
    /\ [](batch.pc # "idle" => isBatchProcessing /\ CountEvents(batchLog, {"alert"}) = 0)
    /\ (isBatchProcessing ~> BatchFinished)

C19_Witness ==
    /\ BatchFinished
    /\ Len(batch.queue) = MaxBase
    /\ Len(allQuestions) < Len(batch.queue)
    /\ \E i \in DOMAIN batchLog : batchLog[i].failed


(***************************************************************************)
(* Concurrent saves.                                                       *)
(***************************************************************************)
\* Two handleGrade calls for different ids that were outstanding at once and
\* have both saved.
SavedTogether(i, j) ==
    /\ i # j
    /\ gradeLog[i].saved /\ gradeLog[j].saved
    /\ gradeLog[i].call.id # gradeLog[j].call.id
    /\ \/ gradeLog[i].call.seq \in gradeLog[j].call.with
       \/ gradeLog[j].call.seq \in gradeLog[i].call.with
LastSaveOfId(i) ==
    \A k \in DOMAIN gradeLog :
        (gradeLog[k].saved /\ gradeLog[k].call.id = gradeLog[i].call.id) => k <= i
StoredUnderOwnId(i) ==
    /\ gradeLog[i].call.id \in DOMAIN questionStates
    /\ questionStates[gradeLog[i].call.id].graderEssay = gradeLog[i].call.input
    /\ questionStates[gradeLog[i].call.id].graderFeedback = gradeLog[i].result

\* C20: when two requests for two different question ids are outstanding at
\* once, then in whatever order their responses arrive and are saved,
\* questionStates holds each result under its own question id and neither
\* save loses the other's.
C20_ConcurrentSavesKept ==
    \A i, j \in DOMAIN gradeLog :
        (SavedTogether(i, j) /\ LastSaveOfId(i) /\ LastSaveOfId(j)) =>
            StoredUnderOwnId(i) /\ StoredUnderOwnId(j)

C20_Witness ==
    /\ Len(gradeLog) >= 2
    /\ SavedTogether(1, 2)
    /\ gradeLog[1].call.seq > gradeLog[2].call.seq
    /\ gradeLog[1].result # gradeLog[2].result
    /\ gradeCalls = {}


(***************************************************************************)
(* Persistence across a page load: the slices are read from the stored     *)
(* documents by the useState initializers, then the handlers run.          *)
(***************************************************************************)
\* The documents a previous session can have left under each key.
StoredCatalogDocs ==
    {AbsentDoc(<<>>), StoredDoc(<<>>),
     StoredDoc(<<Question("custom-1", "t1", "X")>>)}
StoredDeletedDocs == {AbsentDoc(<<>>), StoredDoc(<<"q1">>)}
StoredWorkDocs ==
    {AbsentDoc(EmptyMap),
     StoredDoc([k \in {"q1"} |-> [generatorEssay |-> "a", graderEssay |-> "",
                                  graderFeedback |-> "", realTimeEssay |-> ""]])}
StoredAnalysisDocs ==
    {AbsentDoc(EmptyMap), StoredDoc([k \in {"X"} |-> ChapterAnalysis("X", 1, "p1")])}

PersistInit ==
    /\ appVariant \in AppVariants
    /\ storageAtLoad \in [customQuestions : StoredCatalogDocs,
                          deletedIds : StoredDeletedDocs,
                          questionStates : StoredWorkDocs,
                          topicAnalyses : StoredAnalysisDocs]
    /\ initialQuestions = <<Question("q1", "t1", "X")>>
    /\ customQuestions = LoadSlice(storageAtLoad.customQuestions)
    /\ deletedIds = LoadSlice(storageAtLoad.deletedIds)
    /\ allQuestions = ComputeAllQuestions(initialQuestions, customQuestions, deletedIds)
    /\ selectedQuestion = NoQuestion
    /\ mode = "ANALYSIS"
    /\ questionStates = LoadSlice(storageAtLoad.questionStates)
    /\ updateLog = <<>>
    /\ topicAnalyses = LoadSlice(storageAtLoad.topicAnalyses)
    /\ selectedChapter = "X"
    /\ isAnalyzing = FALSE
    /\ analyzeCall = NoCall
    /\ analysisLog = <<>>
    /\ analysisOutcome = "none"
    /\ SvcIdle
    /\ BatchIdle
    /\ GraderIdle
    \* the effects of the first render
    /\ localStorage = WrittenStorage(customQuestions, deletedIds, questionStates,
                                     topicAnalyses)

PersistNext ==
    \/ \E q \in {Question("custom-1", t, "X") : t \in Texts} : handleSaveQuestion_App(q)
    \/ \E q \in {Question("custom-1", t, "X") : t \in Texts} : handleSaveQuestion_p1(q)
    \/ \E id \in {"q1", "custom-1"} : handleDeleteQuestion_App(id, TRUE)
    \/ \E id \in {"q1", "custom-1"} : handleDeleteQuestion_p1(id, TRUE)
    \/ \E updates \in {[graderEssay |-> "b", graderFeedback |-> "a"],
                       [generatorEssay |-> "b", clozeData |-> UNDEFINED]} :
          updateQuestionState("q1", updates)
    \/ handleAnalyze
    \/ \E result \in {NoAnalysis, ChapterAnalysis("X", 1, "p2")} : handleAnalyzeResume(result)

SpecPersist == PersistInit /\ [][PersistNext]_vars

SlicesLoaded ==
    /\ customQuestions = (IF storageAtLoad.customQuestions.present
                          THEN storageAtLoad.customQuestions.doc ELSE <<>>)
    /\ deletedIds = (IF storageAtLoad.deletedIds.present
                     THEN storageAtLoad.deletedIds.doc ELSE <<>>)
    /\ questionStates = (IF storageAtLoad.questionStates.present
                         THEN storageAtLoad.questionStates.doc ELSE EmptyMap)
    /\ topicAnalyses = (IF storageAtLoad.topicAnalyses.present
                        THEN storageAtLoad.topicAnalyses.doc ELSE EmptyMap)

StoredEqualsSlices ==
    localStorage = WrittenStorage(customQuestions, deletedIds, questionStates, topicAnalyses)

\* C21: each of the four slices starts as the deserialized stored document, or
\* as the empty container when its key is absent, and in every state between
\* handlers each stored document is present and equals the serialized slice.
C21_StoredEqualsSlices == SlicesLoaded /\ [](StoredEqualsSlices)

\* Every slice has changed since the load, one of them to a record with an
\* undefined property, and a key that was absent at the load is now stored.
C21_Witness ==
    /\ customQuestions # LoadSlice(storageAtLoad.customQuestions)
    /\ deletedIds # LoadSlice(storageAtLoad.deletedIds)
    /\ questionStates # LoadSlice(storageAtLoad.questionStates)
    /\ topicAnalyses # LoadSlice(storageAtLoad.topicAnalyses)
    /\ ~storageAtLoad.questionStates.present
    /\ "q1" \in DOMAIN questionStates
    /\ "clozeData" \in DOMAIN questionStates["q1"]
    /\ questionStates["q1"].clozeData = UNDEFINED
    /\ localStorage.questionStates.present


\* C22: a confirmed handleDeleteQuestion(id) records id in deletedIds and leaves
\* customQuestions unchanged.
C22_DeleteRecordsAndKeeps ==
    [][\A id \in QIds :
          (handleDeleteQuestion_App(id, TRUE) \/ handleDeleteQuestion_p1(id, TRUE))
          => /\ Includes(deletedIds', id)
             /\ customQuestions' = customQuestions]_vars


DefaultedFields == {"generatorEssay", "graderEssay", "graderFeedback", "realTimeEssay"}

\* The step is an updateQuestionState(id, ...) that found no record for id.
FirstUpdateOf(id) ==
    /\ Len(updateLog') = Len(updateLog) + 1
    /\ updateLog'[Len(updateLog')].id = id
    /\ id \notin DOMAIN updateLog'[Len(updateLog')].before

\* C23: a questionStates record appears only in an updateQuestionState for its
\* id, with each of the four essay fields the update does not give equal to the
\* empty string, and no operation removes the record of an id that has one.
C23_RecordsCreatedOnceAndKept ==
    [][/\ DOMAIN questionStates \subseteq DOMAIN questionStates'
       /\ \A id \in DOMAIN questionStates' \ DOMAIN questionStates :
             /\ FirstUpdateOf(id)
             /\ \A f \in DefaultedFields :
                   /\ f \in DOMAIN questionStates'[id]
                   /\ f \notin DOMAIN updateLog'[Len(updateLog')].updates
                      => questionStates'[id][f] = ""]_vars

\* The record of q1 was created by an update, and q1 has since been deleted.
C23_Witness ==
    /\ ~storageAtLoad.questionStates.present
    /\ "q1" \in DOMAIN questionStates
    /\ questionStates["q1"].generatorEssay = ""
    /\ questionStates["q1"].graderEssay = "b"
    /\ "q1" \notin Ids(allQuestions)
    /\ Includes(deletedIds, "q1")


\* C24: at most one request of each kind is outstanding, and the loading flag
\* of each kind (loading, isAnalyzing, isBatchProcessing) is true exactly while
\* its request is outstanding.
C24_FlagWhileOutstanding ==
    /\ Cardinality(gradeCalls) <= 1
    /\ graderLoading <=> gradeCalls # {}
    /\ isAnalyzing <=> analyzeCall # NoCall
    /\ isBatchProcessing <=> batch.pc # "idle"


(***************************************************************************)
(* A batch run with the EssayGenerator and EssayImprover callbacks of      *)
(* part_001 arriving between its steps.                                    *)
(***************************************************************************)
BatchEditNext ==
    \/ BatchStep
    \/ \E id \in Ids(allQuestions) :
          \E updates \in {[generatorEssay |-> "b"], [clozeData |-> "b"]} :
             updateQuestionState(id, updates)

SpecBatchEdit == BatchInit /\ [][BatchEditNext]_vars

\* The state holds for id a value of field f that the run did not start from.
StoredSinceStart(id, f) ==
    /\ batch.pc # "idle"
    /\ id \in DOMAIN questionStates
    /\ f \in DOMAIN questionStates[id]
    /\ \/ id \notin DOMAIN batch.states
       \/ f \notin DOMAIN batch.states[id]
       \/ batch.states[id][f] # questionStates[id][f]

\* The step holds the batch run's updateQuestionState for id.
BatchUpdateOf(id) ==
    Cardinality({i \in DOMAIN batchLog' : batchLog'[i].ev = "update" /\ batchLog'[i].id = id})
    > Cardinality({i \in DOMAIN batchLog : batchLog[i].ev = "update" /\ batchLog[i].id = id})

\* C25: the batch run's update of a question leaves in place a generatorEssay
\* or clozeData value that another handler stored for it after the run started.
C25_BatchKeepsLaterValues ==
    [][\A id \in WorkIds : \A f \in {"generatorEssay", "clozeData"} :
          BatchUpdateOf(id) /\ StoredSinceStart(id, f)
          => questionStates'[id][f] = questionStates[id][f]]_vars


(***************************************************************************)
(* The grader with typing: every change of the essay box is saved, and     *)
(* handleGrade sends the text the box holds.                               *)
(***************************************************************************)
TypedTexts == {"essay 1", "essay 2"}

GradeTypeNext ==
    \/ \E q \in BaseQuestions : onSelectQuestion(q)
    \/ \E m \in {"GENERATOR", "GRADER"} : setMode(m)
    \/ \E newValue \in TypedTexts : handleChange(newValue)
    \/ handleGrade(GraderInput)
    \/ \E call \in gradeCalls :
          \E outcome \in BatchOutcomes("gradeEssay") : handleGradeResume(call, outcome)

\* A first session: nothing stored yet.
GradeTypeInit ==
    /\ GradeInit
    /\ questionStates = EmptyMap
    /\ svcVariant = "geminiService.ts"

SpecGradeType == GradeTypeInit /\ [][GradeTypeNext]_vars

\* The step saves the result of the call made with sequence number seq.
ResultSaved(seq) ==
    /\ Len(gradeLog') = Len(gradeLog) + 1
    /\ gradeLog'[Len(gradeLog')].saved
    /\ gradeLog'[Len(gradeLog')].call.seq = seq

\* C26: saving a grade result leaves the stored graderEssay of the question as
\* the text last typed into the essay box, which handleChange stored.
C26_TypedTextKept ==
    [][\A call \in gradeCalls :
          ResultSaved(call.seq)
          => /\ call.id \in DOMAIN questionStates'
             /\ questionStates'[call.id].graderEssay = SavedField(call.id, "graderEssay")]_vars


\* The step saves a grading result for a request issued for id.
ResultSavedFor(id) ==
    /\ Len(gradeLog') = Len(gradeLog) + 1
    /\ gradeLog'[Len(gradeLog')].saved
    /\ gradeLog'[Len(gradeLog')].call.id = id
    /\ gradeLog'[Len(gradeLog')].result = questionStates'[id].graderFeedback

\* C27: the stored graderFeedback of a question changes only in the step that
\* saves the result of a gradeEssay request issued for that question, and then
\* to that result, whatever selections, mode switches and typing come between
\* the request and its response.
C27_FeedbackUnderRequestId ==
    [][\A id \in WorkIds :
          (id \in DOMAIN questionStates'
           /\ questionStates'[id].graderFeedback # SavedField(id, "graderFeedback"))
          => ResultSavedFor(id)]_vars

\* The result of a request for q1 has been saved while q2 was the selected
\* question, with typing for q2 in between, and q2 holds no feedback.
C27_Witness ==
    /\ Len(gradeLog) = 1
    /\ gradeLog[1].saved
    /\ gradeLog[1].call.id = "q1"
    /\ ~gradeLog[1].call.mounted
    /\ selectedQuestion.id = "q2"
    /\ mode = "GRADER"
    /\ SavedField("q2", "graderEssay") = "essay 2"
    /\ SavedField("q2", "graderFeedback") = ""
    /\ SavedField("q1", "graderFeedback") = gradeLog[1].result
    /\ gradeLog[1].result # ""


\* C28: whenever a question is selected, the effective catalog holds a question
\* with its id and selectedQuestion equals that entry field for field.
C28_SelectedIsCatalogEntry ==
    selectedQuestion # NoQuestion =>
        /\ selectedQuestion.id \in Ids(allQuestions)
        /\ \E i \in DOMAIN allQuestions : allQuestions[i] = selectedQuestion


(***************************************************************************)
(* The catalog handlers from a stored custom list without repeated ids.    *)
(***************************************************************************)
UniqueCatalogInit ==
    /\ CatalogInit
    /\ initialQuestions = <<Question("q1", "t1", "X")>>
    /\ UniqueIds(customQuestions)
    /\ \A i \in DOMAIN customQuestions : customQuestions[i].chapter = "X"

UniqueCatalogNext ==
    \/ \E q \in {c \in CatalogQuestions : c.chapter = "X"} : handleSaveQuestion_App(q)
    \/ \E q \in {c \in CatalogQuestions : c.chapter = "X"} : handleSaveQuestion_p1(q)
    \/ \E id \in QIds : handleDeleteQuestion_App(id, TRUE)
    \/ \E id \in QIds : handleDeleteQuestion_p1(id, TRUE)

SpecUniqueCatalog == UniqueCatalogInit /\ [][UniqueCatalogNext]_vars

\* The step is a handleSaveQuestion(q) for an id customQuestions already holds.
SavesExisting(q) ==
    /\ handleSaveQuestion_App(q) \/ handleSaveQuestion_p1(q)
    /\ q.id \in Ids(customQuestions)

\* C29: customQuestions never holds two entries with one id, and saving a
\* question whose id is present puts it in the place of that entry, with the
\* list's length and the other entries as they were.
C29_OneEntryPerId ==
    /\ [](UniqueIds(customQuestions))
    /\ [][\A q \in CatalogQuestions :
             SavesExisting(q)
             => /\ Len(customQuestions') = Len(customQuestions)
                /\ \A i \in DOMAIN customQuestions :
                      /\ customQuestions'[i].id = customQuestions[i].id
                      /\ customQuestions[i].id = q.id => customQuestions'[i] = q
                      /\ customQuestions[i].id # q.id
                            => customQuestions'[i] = customQuestions[i]]_vars

\* The first stored entry has been replaced by a save and a further id added,
\* after a deletion; the second stored entry is where it was.
C29_Witness ==
    /\ appVariant = "App.tsx"
    /\ Len(storageAtLoad.customQuestions.doc) = MaxCustom
    /\ Len(customQuestions) = MaxCustom + 1
    /\ customQuestions[1] # storageAtLoad.customQuestions.doc[1]
    /\ customQuestions[1].id = storageAtLoad.customQuestions.doc[1].id
    /\ customQuestions[2] = storageAtLoad.customQuestions.doc[2]
    /\ deletedIds # storageAtLoad.deletedIds.doc


\* C30: a handleAnalyze whose analyzeTopicMarkSchemes call returned null leaves
\* every stored analysis as it was and ends with isAnalyzing false, and while
\* the selected chapter has no questions no step issues an analysis request or
\* changes the analysis state.
C30_NullOrEmptyChangesNothing ==
    /\ [][handleAnalyzeResume(NoAnalysis)
          => /\ topicAnalyses' = topicAnalyses
             /\ isAnalyzing' = FALSE]_vars
    /\ [][(analyzeCall = NoCall /\ Len(chapterQuestions) = 0 /\ selectedChapter' = selectedChapter)
          => /\ analyzeCall' = NoCall
             /\ isAnalyzing' = isAnalyzing
             /\ topicAnalyses' = topicAnalyses]_vars

\* A stored analysis has survived a null result, and the chapter now selected
\* has no questions left.
C30_Witness ==
    /\ appVariant = "part_001"
    /\ analysisOutcome = "alert"
    /\ Len(analysisLog) > 0
    /\ topicAnalyses # EmptyMap
    /\ ~isAnalyzing
    /\ Len(allQuestions) > 0
    /\ Len(chapterQuestions) = 0

====
